---------------------------- MODULE Spec2Model ----------------------------
(***************************************************************************)
(* A model of the ingestion pipeline of NewsExplorer (src/backend.py):     *)
(* the NewsScraper object, its in-memory batch self.news_data, the SQLite  *)
(* table news, the two export files, and the operations run_scrape and     *)
(* scrape_single_feed with the helpers they call.                          *)
(*                                                                         *)
(* Text is a sequence of one-character strings.  Time is an integer number *)
(* of days; a datetime is a record [t, aware] where aware says whether the *)
(* value carries a UTC offset (tzinfo).                                    *)
(***************************************************************************)
EXTENDS Integers, Sequences, FiniteSets, TLC

(***************************************************************************)
(* Bounds of the model.                                                    *)
(***************************************************************************)
MaxBatch == 3        \* longest batch drawn for remove_duplicates
MaxOps == 2          \* operations (full or single-feed runs) started
MaxTicks == 1        \* times the clock advances
MaxFaults == 1       \* storage, export and unforeseen errors the environment injects
MaxEntries == 2      \* longest feed drawn for fetch_feed
MaxServed == 5       \* attempts of one request the server answers
MaxRows == 2         \* rows of the table a filter request is run on

(***************************************************************************)
(* Program constants.                                                      *)
(***************************************************************************)
RecencyDays == 365       \* timedelta(days=365)
RetryTotal == 3          \* Retry(total=3, ...)
DaysPerYear == 365       \* strftime('%Y', publication_date), the clock counting days
MinDetectLen == 10       \* len(text.strip()) < 10
MaxDetectLen == 1000     \* text[:1000]
PosThreshold == 500      \* compound > 0.05, in units of 1/10000
NegThreshold == -500     \* compound < -0.05, in units of 1/10000

(***************************************************************************)
(* Generic helpers on sequences.                                           *)
(***************************************************************************)
Range(s) == {s[i] : i \in 1..Len(s)}

SeqsUpTo(S, n) == UNION {[1..k -> S] : k \in 0..n}

RECURSIVE SelectIdx(_, _, _)
\* the subsequence of s at the indices i (from k on) for which keep[i]
SelectIdx(s, keep, k) ==
    IF k > Len(s) THEN <<>>
    ELSE (IF keep[k] THEN <<s[k]>> ELSE <<>>) \o SelectIdx(s, keep, k + 1)

(***************************************************************************)
(* Text: str.strip, re.sub(r'\s+', ' ', .), encode/decode.                 *)
(***************************************************************************)
Whitespace == {" ", "\n"}
Unencodable == {"?"}     \* stands for a lone surrogate, which utf-8 cannot encode

RECURSIVE LStrip(_)
LStrip(s) == IF s # <<>> /\ Head(s) \in Whitespace THEN LStrip(Tail(s)) ELSE s

RECURSIVE RStrip(_)
RStrip(s) ==
    IF s # <<>> /\ s[Len(s)] \in Whitespace THEN RStrip(SubSeq(s, 1, Len(s) - 1)) ELSE s

Strip(s) == RStrip(LStrip(s))

RECURSIVE CollapseWs(_)
\* re.sub(r'\s+', ' ', s): every maximal run of whitespace becomes one space
CollapseWs(s) ==
    IF s = <<>> THEN <<>>
    ELSE IF Head(s) \in Whitespace
         THEN <<" ">> \o CollapseWs(LStrip(s))
         ELSE <<Head(s)>> \o CollapseWs(Tail(s))

\* s.encode('utf-8', errors='ignore').decode('utf-8')
EncodeIgnore(s) == SelectIdx(s, [i \in 1..Len(s) |-> s[i] \notin Unencodable], 1)

clean_text(text) ==
    IF text = <<>> THEN <<>> ELSE EncodeIgnore(CollapseWs(Strip(text)))


(***************************************************************************)
(* Articles.  An Article is the dict built at fetch_feed (and at           *)
(* scrape_historical_articles): eight string fields.  publication_date is  *)
(* the text of a timestamp: a record [fmt, t] of the format it is written  *)
(* in and the instant it names.                                            *)
(***************************************************************************)
Columns ==
    <<"title", "publication_date", "source", "country",
      "summary", "url", "language", "sentiment">>

Article(title, pub, source, country, summary, url, language, sentiment) ==
    [title |-> title, publication_date |-> pub, source |-> source,
     country |-> country, summary |-> summary, url |-> url,
     language |-> language, sentiment |-> sentiment]

\* UNIQUE(title, publication_date, source, url) of the table news
UniqueKey(a) == <<a.title, a.publication_date, a.source, a.url>>

\* a mutation of DedupSubset: the four columns of the table's UNIQUE constraint
DedupSubsetOfTable == <<"title", "publication_date", "source", "url">>

\* subset=['title', 'source', 'url'] of drop_duplicates
DedupSubset == <<"title", "source", "url">>

(***************************************************************************)
(* pandas: DataFrame(list of dicts), drop_duplicates, to_dict('records').  *)
(* A frame is its column labels and its rows as tuples in column order.    *)
(***************************************************************************)
DataFrame(data) ==
    IF data = <<>> THEN [columns |-> <<>>, rows |-> <<>>]
    ELSE [columns |-> Columns,
          rows |-> [i \in 1..Len(data) |->
                      [c \in 1..Len(Columns) |-> data[i][Columns[c]]]]]

ColumnIndex(df, label) == CHOOSE c \in 1..Len(df.columns) : df.columns[c] = label

\* the values of row i of df in the columns named by subset
RowKey(df, subset, i) ==
    [k \in 1..Len(subset) |-> df.rows[i][ColumnIndex(df, subset[k])]]

\* df.drop_duplicates(subset=subset, keep='first'); an empty frame is copied
drop_duplicates(df, subset) ==
    IF df.rows = <<>> THEN df
    ELSE [df EXCEPT !.rows =
            SelectIdx(df.rows,
                      [i \in 1..Len(df.rows) |->
                         \A j \in 1..(i - 1) :
                            RowKey(df, subset, j) # RowKey(df, subset, i)],
                      1)]

\* df.to_dict('records')
to_dict_records(df) ==
    [i \in 1..Len(df.rows) |->
       [f \in Range(df.columns) |-> df.rows[i][ColumnIndex(df, f)]]]

\* a mutation of remove_duplicates: keep='last' instead of keep='first'
remove_duplicates_keep_last(data) ==
    LET df == DataFrame(data)
        keep == [i \in 1..Len(df.rows) |->
                   \A j \in (i + 1)..Len(df.rows) :
                      RowKey(df, DedupSubset, j) # RowKey(df, DedupSubset, i)]
    IN  to_dict_records([df EXCEPT !.rows = SelectIdx(df.rows, keep, 1)])

\* NewsScraper.remove_duplicates: the new value of self.news_data
remove_duplicates(data) ==
    to_dict_records(drop_duplicates(DataFrame(data), DedupSubset))

(***************************************************************************)
(* Exceptions: the classes the handlers name and what they catch.          *)
(***************************************************************************)
Superclasses(e) ==
    CASE e = "sqlite3.Error" -> {"sqlite3.Error", "Exception"}
      [] e = "RequestException" -> {"RequestException", "OSError", "Exception"}
      [] e \in {"ConnectionError", "RetryError", "HTTPError"} ->
             {e, "RequestException", "OSError", "Exception"}
      [] e = "RuntimeError" -> {"RuntimeError", "Exception"}
      [] OTHER -> {e, "Exception"}

Catches(handler, e) == handler \in Superclasses(e)

(***************************************************************************)
(* Time.  datetime.now() is naive; strptime with %z in the format yields   *)
(* an aware datetime; Python refuses to order a naive and an aware one.    *)
(***************************************************************************)
DateTime(t, aware) == [t |-> t, aware |-> aware]

datetime_now(clock) == DateTime(clock, FALSE)

\* a date string: fmt "rfc822" matches '%a, %d %b %Y %H:%M:%S %z', "other"
\* is any other non-empty text, "empty" is ''
DateStr(fmt, t) == [fmt |-> fmt, t |-> t]
EmptyDateStr == DateStr("empty", 0)

\* datetime.strptime(s, '%a, %d %b %Y %H:%M:%S %z')
strptime(s) ==
    IF s.fmt = "rfc822"
    THEN [raised |-> "none", dt |-> DateTime(s.t, TRUE)]
    ELSE [raised |-> "ValueError", dt |-> DateTime(0, FALSE)]

\* a < b on datetimes: "TypeError" when exactly one of them is aware
datetime_lt(a, b) ==
    IF a.aware # b.aware THEN "TypeError"
    ELSE IF a.t < b.t THEN "true" ELSE "false"

\* dt.strftime('%Y-%m-%d %H:%M:%S'): the offset is not written
strftime(dt) == DateStr("sql", dt.t)

(***************************************************************************)
(* The two classifiers.  langdetect.detect and VADER's polarity_scores are *)
(* libraries: they are stood for by fixed functions of the text (detect    *)
(* raises on a text without letters, as langdetect does).                  *)
(***************************************************************************)
Letters == {"a", "b", "g", "o", "d", "n", "e", "w", "s", "x"}

detect(text) ==
    IF \A i \in 1..Len(text) : text[i] \notin Letters
    THEN [raised |-> TRUE, lang |-> ""]
    ELSE [raised |-> FALSE,
          lang |-> IF \E i \in 1..Len(text) : text[i] = "x" THEN "fr" ELSE "en"]

\* text[:1000]
Prefix(text) == SubSeq(text, 1, IF Len(text) < MaxDetectLen
                                THEN Len(text) ELSE MaxDetectLen)

\* a mutation of detect_language_with: the detector's result is returned as
\* it is
detect_language_unguarded(text, r) ==
    IF Len(Strip(text)) < MinDetectLen THEN "unknown"
    ELSE IF r.raised THEN "unknown"
    ELSE r.lang

\* lines 230-237, r being what detect(text[:1000]) yields, [raised, lang]
detect_language_with(text, r) ==
    IF Len(Strip(text)) < MinDetectLen THEN "unknown"
    ELSE IF r.raised THEN "unknown"
    ELSE IF r.lang # "" THEN r.lang ELSE "unknown"

detect_language(text) == detect_language_with(text, detect(Prefix(text)))

\* scores['compound'] in units of 1/10000
polarity_compound(text) ==
    IF \E i \in 1..Len(text) : text[i] = "g" THEN 4404
    ELSE IF \E i \in 1..Len(text) : text[i] = "b" THEN -5423
    ELSE 0

\* self.analyzer.polarity_scores(text), [raised, compound]
polarity_scores(text) == [raised |-> FALSE, compound |-> polarity_compound(text)]

\* a mutation of analyze_sentiment_with: the thresholds belong to the
\* positive and the negative class
analyze_sentiment_inclusive(scores) ==
    IF scores.raised THEN "unknown"
    ELSE IF scores.compound >= PosThreshold THEN "positive"
    ELSE IF scores.compound <= NegThreshold THEN "negative"
    ELSE "neutral"

\* lines 248-259, scores being what polarity_scores yields
analyze_sentiment_with(scores) ==
    IF scores.raised THEN "unknown"
    ELSE IF scores.compound > PosThreshold THEN "positive"
    ELSE IF scores.compound < NegThreshold THEN "negative"
    ELSE "neutral"

analyze_sentiment(text) == analyze_sentiment_with(polarity_scores(text))

(***************************************************************************)
(* fetch_feed.  A feed entry is a dict: a function from the field names it *)
(* has to their values.  A response is [raised, entries]: what             *)
(* session.get, raise_for_status and feedparser.parse yield for the url.   *)
(***************************************************************************)
Get(entry, key, default) == IF key \in DOMAIN entry THEN entry[key] ELSE default

NoTitle == <<"N", "o", " ", "T", "i", "t", "l", "e">>

\* lines 286-299: the publication date of an entry, or skip (continue)
EntryDate(entry, one_year_ago, clock) ==
    LET pub_date == Get(entry, "published", Get(entry, "updated", EmptyDateStr))
        parsed == strptime(pub_date)
        older == datetime_lt(parsed.dt, one_year_ago)
    IN  IF pub_date.fmt = "empty"
        THEN [skip |-> FALSE, dt |-> datetime_now(clock)]
        ELSE IF parsed.raised = "ValueError"
        THEN [skip |-> FALSE, dt |-> datetime_now(clock)]
        ELSE IF older = "TypeError"
        THEN [skip |-> FALSE, dt |-> datetime_now(clock)]
        ELSE IF older = "true"
        THEN [skip |-> TRUE, dt |-> parsed.dt]
        ELSE [skip |-> FALSE, dt |-> parsed.dt]

\* lines 285-316: the articles one entry appends to entries (none or one)
ProcessEntry(entry, country, agency, one_year_ago, clock) ==
    LET d == EntryDate(entry, one_year_ago, clock)
        title == clean_text(Get(entry, "title", NoTitle))
        summary == clean_text(Get(entry, "summary", Get(entry, "description", <<>>)))
        url == Get(entry, "link", "")
        language == detect_language(title \o <<" ">> \o summary)
        sentiment == analyze_sentiment(summary)
    IN  IF d.skip THEN <<>>
        ELSE <<Article(title, strftime(d.dt), agency, country,
                       summary, url, language, sentiment)>>

RECURSIVE ProcessEntriesReversed(_, _, _, _, _)
\* a mutation of ProcessEntries: each article is inserted at the head of the
\* list
ProcessEntriesReversed(es, country, agency, one_year_ago, clock) ==
    IF es = <<>> THEN <<>>
    ELSE ProcessEntriesReversed(Tail(es), country, agency, one_year_ago, clock)
         \o ProcessEntry(Head(es), country, agency, one_year_ago, clock)

RECURSIVE ProcessEntries(_, _, _, _, _)
ProcessEntries(es, country, agency, one_year_ago, clock) ==
    IF es = <<>> THEN <<>>
    ELSE ProcessEntry(Head(es), country, agency, one_year_ago, clock)
         \o ProcessEntries(Tail(es), country, agency, one_year_ago, clock)

\* what lines 301-316 raise for an entry: its field "fault" stands for a
\* value of the entry that clean_text or strftime cannot take ("none": nothing
\* is raised); no try block encloses these lines but that of fetch_feed
EntryRaises(entry) == Get(entry, "fault", "none")

\* the exceptions the loop over the entries raises, in order: an entry the
\* date check skips does not reach lines 301-316
LoopRaises(es, one_year_ago, clock) ==
    SelectIdx([i \in 1..Len(es) |-> EntryRaises(es[i])],
              [i \in 1..Len(es) |->
                 /\ EntryRaises(es[i]) # "none"
                 /\ ~EntryDate(es[i], one_year_ago, clock).skip], 1)

\* a mutation of fetch_feed_body: a try block around lines 301-316 skips the
\* entry that raises
fetch_feed_body_skip_entry(country, agency, response, clock) ==
    IF response.raised # "none" THEN [raised |-> response.raised, value |-> <<>>]
    ELSE [raised |-> "none",
          value |-> ProcessEntries(
                      SelectIdx(response.entries,
                                [i \in 1..Len(response.entries) |->
                                   EntryRaises(response.entries[i]) = "none"], 1),
                      country, agency, DateTime(clock - RecencyDays, FALSE), clock)]

\* lines 273-319: the body of the try block of fetch_feed
fetch_feed_body(country, agency, response, clock) ==
    LET one_year_ago == DateTime(clock - RecencyDays, FALSE)
        raises == LoopRaises(response.entries, one_year_ago, clock)
    IN  IF response.raised # "none" THEN [raised |-> response.raised, value |-> <<>>]
        ELSE IF response.entries = <<>> THEN [raised |-> "none", value |-> <<>>]
        ELSE IF raises # <<>> THEN [raised |-> Head(raises), value |-> <<>>]
        ELSE [raised |-> "none",
              value |-> ProcessEntries(response.entries, country, agency,
                                       one_year_ago, clock)]

\* a mutation of fetch_feed: no except clause, a failure reaches the caller
fetch_feed_reraise(country, agency, response, clock) ==
    fetch_feed_body(country, agency, response, clock)

\* NewsScraper.fetch_feed: [raised, value], what the call raises and returns
fetch_feed(country, agency, response, clock) ==
    LET r == fetch_feed_body(country, agency, response, clock)
    IN  IF r.raised = "none" THEN r
        ELSE IF Catches("RequestException", r.raised)
        THEN [raised |-> "none", value |-> <<>>]
        ELSE IF Catches("Exception", r.raised)
        THEN [raised |-> "none", value |-> <<>>]
        ELSE r

(***************************************************************************)
(* scrape_historical_articles.  BeautifulSoup looks its second argument up *)
(* among the features of the installed tree builders and raises            *)
(* FeatureNotFound when none has it.  A page is a dict of what the markup  *)
(* holds: title, paragraphs, published_time, og_site (each optional).      *)
(***************************************************************************)
TreeBuilderFeatures ==
    {"html.parser", "html", "fast", "permissive", "strict",
     "xml", "lxml", "lxml-xml", "html5lib", "html5"}

BeautifulSoup(markup, features) ==
    IF features \in TreeBuilderFeatures
    THEN [raised |-> "none", soup |-> markup]
    ELSE [raised |-> "FeatureNotFound", soup |-> << >>]

\* lines 342-368: the articles one historical url appends (none or one);
\* response is [raised, page], what session.get yields for the url
HistoricalArticle(country, url, response, clock) ==
    LET parsed == BeautifulSoup(response.page, "summary")
        soup == parsed.soup
        title == clean_text(Get(soup, "title", NoTitle))
        summary == clean_text(Get(soup, "paragraphs", <<>>))
        pub_date == Get(soup, "published_time", strftime(datetime_now(clock)))
        source == Get(soup, "og_site", "Unknown")
    IN  IF response.raised # "none" THEN <<>>
        ELSE IF parsed.raised # "none" THEN <<>>
        ELSE <<Article(title, pub_date, source, country, summary, url,
                       detect_language(title \o <<" ">> \o summary),
                       analyze_sentiment(summary))>>

RECURSIVE scrape_historical_articles(_, _, _)
\* refs: the (country, url) pairs of HISTORICAL_URLS; responses: by url
scrape_historical_articles(refs, responses, clock) ==
    IF refs = <<>> THEN <<>>
    ELSE HistoricalArticle(Head(refs).country, Head(refs).url,
                           responses[Head(refs).url], clock)
         \o scrape_historical_articles(Tail(refs), responses, clock)

(***************************************************************************)
(* The table news: rows in rowid order.                                    *)
(***************************************************************************)
\* the row conflicts with a row of the table under the UNIQUE constraint
Conflicts(rows, item) == \E i \in 1..Len(rows) : UniqueKey(rows[i]) = UniqueKey(item)

\* a mutation of InsertOrIgnore: the table has no UNIQUE constraint
InsertNoConstraint(rows, item) == [rows |-> Append(rows, item), raised |-> "none"]

\* a mutation of InsertOrIgnore: INSERT INTO, a conflict is an IntegrityError
InsertOrFail(rows, item) ==
    IF Conflicts(rows, item)
    THEN [rows |-> rows, raised |-> "sqlite3.Error"]
    ELSE [rows |-> Append(rows, item), raised |-> "none"]

\* a mutation of InsertOrIgnore: INSERT OR REPLACE, the row of the key is
\* deleted and the item inserted
InsertOrReplace(rows, item) ==
    [rows |-> Append(SelectIdx(rows, [i \in 1..Len(rows) |->
                                        UniqueKey(rows[i]) # UniqueKey(item)], 1),
                     item),
     raised |-> "none"]

\* INSERT OR IGNORE INTO news ...: [rows, raised], the table and what execute raises
InsertOrIgnore(rows, item) ==
    IF Conflicts(rows, item)
    THEN [rows |-> rows, raised |-> "none"]
    ELSE [rows |-> Append(rows, item), raised |-> "none"]

(***************************************************************************)
(* Handlers: the exception that leaves each function when e is raised in   *)
(* its try block ("none" when the except clause swallows it).              *)
(***************************************************************************)
\* save_to_csv, save_to_json: except Exception
export_except(e) == IF Catches("Exception", e) THEN "none" ELSE e

\* a mutation of save_to_database_except: the sqlite3.Error is raised again
save_to_database_reraise(e) == e

\* save_to_database: except sqlite3.Error
save_to_database_except(e) == IF Catches("sqlite3.Error", e) THEN "none" ELSE e

\* a mutation of run_scrape_except: the clause names sqlite3.Error only
run_scrape_except_narrow(e) == IF Catches("sqlite3.Error", e) THEN "none" ELSE e

\* run_scrape: except Exception
run_scrape_except(e) == IF Catches("Exception", e) THEN "none" ELSE e

\* a mutation of RowErrorEndsLoop: a try block around each row's insert
RowErrorSkipsRow == FALSE

\* save_to_database: the try block is around the loop, an error leaves the loop
RowErrorEndsLoop == TRUE

(***************************************************************************)
(* Configuration (RSS_FEEDS and HISTORICAL_URLS, abridged) and the         *)
(* environment: what the urls serve.                                       *)
(***************************************************************************)
RSS_FEEDS ==
    <<[country |-> "UK", agency |-> "BBC News", url |-> "bbc"],
      [country |-> "USA", agency |-> "CNN", url |-> "cnn"]>>

HISTORICAL_URLS == <<[country |-> "UK", url |-> "bbc_article"]>>

FeedIdx == 1..Len(RSS_FEEDS)
Urls == {RSS_FEEDS[f].url : f \in FeedIdx}

Clock0 == 400        \* the clock of the initial state

SummaryGood == <<"g", "o", "o", "d", " ", "n", "e", "w", "s", " ", "a">>

\* an entry with a well-formed recent date, and one with no date at all
EntryA ==
    [title |-> <<"a">>, published |-> DateStr("rfc822", Clock0 - 1),
     link |-> "u1", summary |-> SummaryGood]
EntryB == [title |-> <<"b">>, link |-> "u2"]

Contents == {<<EntryA>>, <<EntryB, EntryB>>}

HistoricalPages ==
    [u \in {"bbc_article"} |->
       [title |-> <<"a">>, paragraphs |-> SummaryGood, og_site |-> "BBC"]]

\* what session.get / raise_for_status / feedparser.parse may raise
NetOutcomes == {"none", "RequestException", "Exception"}

\* the (country, agency) a caller of scrape_single_feed passes
SingleLabels ==
    {[country |-> "Custom", agency |-> "Custom Feed"],
     [country |-> "Custom", agency |-> "BBC News"]}

(***************************************************************************)
(* State.                                                                  *)
(***************************************************************************)
Threads == {"sched", "api"}   \* the scheduler's thread; the service's event loop
ListIds == {1, 2, 3}          \* list objects; 0 is no reference

VARIABLES
    heap,        \* the list objects: [ListIds -> Seq(Article)]
    news_data,   \* self.news_data: the list object the attribute names
    store,       \* the rows of table news, in rowid order
    csv_file,    \* downloads/news_data.csv: <<>> (no file) or <<frame>>
    json_file,   \* downloads/news_data.json: <<>> (no file) or <<records>>
    clock,       \* the current time
    feed,        \* what each feed url serves: [Urls -> Seq(entry)]
    pc,          \* where each thread is
    loc,         \* each thread's locals
    tasks,       \* each thread's futures: [FeedIdx -> task]
    job,         \* each thread's Pipeline Job: [state, exc, propagated]
    nops,        \* operations started
    faults,      \* errors injected so far
    saves,       \* the last two calls of save_to_database that ended
    dedup_io,    \* <<>>, or <<input, output>> of the last remove_duplicates
    fetch_io,    \* <<>>, or <<r>>: the input and the result of the last fetch_feed
    call_io      \* <<>>, or <<r>>: the input and the result of the last call of
                 \* another function on its own

vars ==
    <<heap, news_data, store, csv_file, json_file, clock, feed, pc, loc,
      tasks, job, nops, faults, saves, dedup_io, fetch_io, call_io>>

world == <<clock, feed>>           \* what no operation of the program changes
probes == <<dedup_io, fetch_io, call_io>>   \* what only the function specifications set

Batch == heap[news_data]

IdleLoc ==
    [kind |-> "none", ref |-> 0, i |-> 0, entries |-> <<>>, t0 |-> 0,
     fetched |-> TRUE, n0 |-> 0, failed_at |-> 0, injected |-> FALSE]

PendingTask == [done |-> FALSE, raised |-> "none", value |-> <<>>, failed |-> FALSE, at |-> 0]

IdleJob == [state |-> "Idle", exc |-> "none", step |-> "none", propagated |-> FALSE]

\* the list objects something refers to
Live(attr, l) == ({attr} \cup {l[t].ref : t \in Threads}) \ {0}

\* the heap once the objects nothing refers to are freed
Collect(h, attr, l) == [x \in ListIds |-> IF x \in Live(attr, l) THEN h[x] ELSE <<>>]

\* a list object not in use
Fresh == CHOOSE x \in ListIds : x \notin Live(news_data, loc)
                               /\ \A y \in ListIds : y \notin Live(news_data, loc) => x <= y

\* the state NewsScraper.__init__ leaves, but for the batch and the world
InitObject ==
    /\ news_data = 1
    /\ store = <<>>
    /\ csv_file = <<>>
    /\ json_file = <<>>
    /\ pc = [t \in Threads |-> "idle"]
    /\ loc = [t \in Threads |-> IdleLoc]
    /\ tasks = [t \in Threads |-> [f \in FeedIdx |-> PendingTask]]
    /\ job = [t \in Threads |-> IdleJob]
    /\ nops = 0
    /\ faults = 0
    /\ saves = <<>>
    /\ dedup_io = <<>>
    /\ fetch_io = <<>>
    /\ call_io = <<>>

Init ==
    /\ InitObject
    /\ heap = [x \in ListIds |-> <<>>]
    /\ clock = Clock0
    /\ feed \in [Urls -> Contents]

(***************************************************************************)
(* How an operation ends.                                                  *)
(***************************************************************************)
\* the job state run_scrape leaves when e reached its try block
JobAfter(e, step) ==
    [state |-> IF e = "none" THEN "Completed"
               ELSE IF run_scrape_except(e) = "none" THEN "Failed"
               ELSE "Raised",
     exc |-> e,
     step |-> IF e = "none" THEN "none" ELSE step,
     propagated |-> run_scrape_except(e) # "none"]

\* a mutation of scrape_all: the endpoint reports a run that failed
scrape_all_reports_failure(j) ==
    IF j.propagated \/ j.state = "Failed"
    THEN [status |-> 500, body |-> "Error during full scrape"]
    ELSE [status |-> 200, body |-> "Scraping completed"]

\* scrape_all (lines 658-662): the response to GET /news/scrape_all, j being
\* the job as scraper.run_scrape() left it
scrape_all(j) ==
    IF j.propagated
    THEN [status |-> 500, body |-> "Error during full scrape"]
    ELSE [status |-> 200, body |-> "Scraping completed"]

\* thread t leaves its operation; e is the exception that left the last step
Return(t, e) ==
    /\ pc' = [pc EXCEPT ![t] = "idle"]
    /\ loc' = [loc EXCEPT ![t] = IdleLoc]
    /\ tasks' = [tasks EXCEPT ![t] = [f \in FeedIdx |-> PendingTask]]
    /\ job' = IF loc[t].kind = "full"
              THEN [job EXCEPT ![t] = JobAfter(e, pc[t])] ELSE job
    /\ heap' = Collect(heap, news_data, [loc EXCEPT ![t] = IdleLoc])

\* the environment injects the error e, within its budget
Inject(e) ==
    /\ e = "none" \/ faults < MaxFaults
    /\ faults' = IF e = "none" THEN faults ELSE faults + 1

\* the record of a call of save_to_database that ended
\* (failed_at: the first item whose insert raised, -1 for connect, 0 for none;
\* injected: whether the environment made an insert or connect fail)
SaveRecord(t, batch, failed_at, injected, e, rows) ==
    [kind |-> loc[t].kind, batch |-> batch, failed_at |-> failed_at,
     injected |-> injected,
     n0 |-> loc[t].n0, n1 |-> Len(rows), err |-> e,
     escaped |-> save_to_database_except(e),
     t0 |-> loc[t].t0, t1 |-> clock, fetched |-> loc[t].fetched,
     job |-> IF loc[t].kind = "full"
             THEN JobAfter(save_to_database_except(e), pc[t]).state ELSE "n/a"]

Remember(rec) == IF saves = <<>> THEN <<rec>> ELSE <<saves[Len(saves)], rec>>

\* save_to_database ends on thread t, e raised in its try block
SaveEnds(t, batch, failed_at, injected, e, rows) ==
    /\ saves' = Remember(SaveRecord(t, batch, failed_at, injected, e, rows))
    /\ IF loc[t].kind = "single" /\ save_to_database_except(e) = "none"
       THEN /\ pc' = [pc EXCEPT ![t] = "csv"]
            /\ loc' = [loc EXCEPT ![t].ref = 0, ![t].i = 0, ![t].failed_at = 0,
                                  ![t].injected = FALSE]
            /\ heap' = Collect(heap, news_data, [loc EXCEPT ![t].ref = 0])
            /\ UNCHANGED <<tasks, job>>
       ELSE Return(t, save_to_database_except(e))

(***************************************************************************)
(* run_scrape (lines 459-470) with scrape_all_feeds (371-381).             *)
(***************************************************************************)
\* line 462 and lines 373-377: the batch is reset, the fetches are submitted
RunScrape(t) ==
    /\ pc[t] = "idle"
    /\ nops < MaxOps
    /\ LET l == Fresh
           loc1 == [loc EXCEPT ![t] = [IdleLoc EXCEPT !.kind = "full", !.t0 = clock]]
       IN  /\ news_data' = l
           /\ heap' = Collect([heap EXCEPT ![l] = <<>>], l, loc1)
           /\ loc' = loc1
    /\ pc' = [pc EXCEPT ![t] = "hist"]
    /\ tasks' = [tasks EXCEPT ![t] = [f \in FeedIdx |-> PendingTask]]
    /\ job' = [job EXCEPT ![t] = [IdleJob EXCEPT !.state = "Running"]]
    /\ nops' = nops + 1
    /\ UNCHANGED <<store, csv_file, json_file, faults, saves, world, probes>>

\* a mutation of Worker: the request has no timeout and the server never
\* answers
WorkerHangs(t, f) ==
    /\ FALSE
    /\ UNCHANGED vars

\* a worker of the pool runs fetch_feed for feed f
Worker(t, f) ==
    /\ pc[t] \in {"hist", "join", "wait"}
    /\ ~tasks[t][f].done
    /\ \E raised \in NetOutcomes :
         LET r == fetch_feed(RSS_FEEDS[f].country, RSS_FEEDS[f].agency,
                             [raised |-> raised, entries |-> feed[RSS_FEEDS[f].url]],
                             clock)
         IN  /\ tasks' = [tasks EXCEPT ![t][f] =
                            [done |-> TRUE, raised |-> r.raised, value |-> r.value,
                             failed |-> raised # "none", at |-> clock]]
             /\ loc' = [loc EXCEPT ![t].fetched = @ /\ raised = "none"]
    /\ UNCHANGED <<heap, news_data, store, csv_file, json_file, pc, job, nops,
                   faults, saves, world, probes>>

\* line 378: the historical articles are appended
Historical(t) ==
    /\ pc[t] = "hist"
    /\ \E raised \in {"none", "RequestException"} :
         heap' = [heap EXCEPT ![news_data] =
                    @ \o scrape_historical_articles(
                           HISTORICAL_URLS,
                           [u \in DOMAIN HistoricalPages |->
                              [raised |-> raised, page |-> HistoricalPages[u]]],
                           clock)]
    /\ pc' = [pc EXCEPT ![t] = "join"]
    /\ loc' = [loc EXCEPT ![t].i = 1]
    /\ UNCHANGED <<news_data, store, csv_file, json_file, tasks, job, nops, faults,
                   saves, world, probes>>

\* line 380: self.news_data.extend is looked up, before the future is awaited
JoinLoad(t) ==
    /\ pc[t] = "join"
    /\ pc' = [pc EXCEPT ![t] = "wait"]
    /\ loc' = [loc EXCEPT ![t].ref = news_data]
    /\ UNCHANGED <<heap, news_data, store, csv_file, json_file, tasks, job, nops,
                   faults, saves, world, probes>>

\* a mutation of Extend: the items are inserted at the head of the list
ExtendAtHead(a, b) == b \o a

\* list.extend: a followed by b
Extend(a, b) == a \o b

\* a mutation of JoinResult: the future is not awaited, what it holds so
\* far is taken
JoinResultNoWait(t) ==
    /\ pc[t] = "wait"
    /\ IF tasks[t][loc[t].i].raised # "none"
       THEN Return(t, tasks[t][loc[t].i].raised)
       ELSE /\ pc' = [pc EXCEPT ![t] =
                        IF loc[t].i = Len(RSS_FEEDS) THEN "dedup" ELSE "join"]
            /\ loc' = [loc EXCEPT ![t].ref = 0, ![t].i = @ + 1]
            /\ heap' = Collect([heap EXCEPT ![loc[t].ref] =
                                  Extend(@, tasks[t][loc[t].i].value)],
                               news_data, loc')
            /\ UNCHANGED <<tasks, job>>
    /\ UNCHANGED <<news_data, store, csv_file, json_file, nops, faults, saves,
                   world, probes>>

\* line 380: future.result() returns (or raises) and the list is extended
JoinResult(t) ==
    /\ pc[t] = "wait"
    /\ tasks[t][loc[t].i].done
    /\ IF tasks[t][loc[t].i].raised # "none"
       THEN Return(t, tasks[t][loc[t].i].raised)
       ELSE /\ pc' = [pc EXCEPT ![t] =
                        IF loc[t].i = Len(RSS_FEEDS) THEN "dedup" ELSE "join"]
            /\ loc' = [loc EXCEPT ![t].ref = 0, ![t].i = @ + 1]
            /\ heap' = Collect([heap EXCEPT ![loc[t].ref] =
                                  Extend(@, tasks[t][loc[t].i].value)],
                               news_data, loc')
            /\ UNCHANGED <<tasks, job>>
    /\ UNCHANGED <<news_data, store, csv_file, json_file, nops, faults, saves,
                   world, probes>>

\* line 464: remove_duplicates rebinds self.news_data to a new list
RemoveDuplicates(t) ==
    /\ pc[t] = "dedup"
    /\ LET l == Fresh
       IN  /\ news_data' = l
           /\ heap' = Collect([heap EXCEPT ![l] = remove_duplicates(Batch)], l, loc)
    /\ pc' = [pc EXCEPT ![t] = "csv"]
    /\ UNCHANGED <<store, csv_file, json_file, loc, tasks, job, nops, faults,
                   saves, world, probes>>

(***************************************************************************)
(* The exports (lines 409-427).  An I/O error is caught and logged inside  *)
(* the function; the file stays as it was (the open failed).               *)
(***************************************************************************)
ExportOutcomes == {"none", "OSError"}

Written(file, content, e) == IF e = "none" THEN <<content>> ELSE file

\* where the operation goes after an export step
AfterExport(t, step) ==
    IF step = "csv" THEN "json"
    ELSE IF loc[t].kind = "full" THEN "db" ELSE "idle"

\* an export step on thread t ends, e raised in its try block
ExportEnds(t, step, e) ==
    IF export_except(e) = "none" /\ AfterExport(t, step) # "idle"
    THEN /\ pc' = [pc EXCEPT ![t] = AfterExport(t, step)]
         /\ UNCHANGED <<heap, loc, tasks, job>>
    ELSE Return(t, export_except(e))

save_to_csv(t) ==
    /\ pc[t] = "csv"
    /\ \E e \in ExportOutcomes :
         /\ Inject(e)
         /\ csv_file' = Written(csv_file, DataFrame(Batch), e)
         /\ ExportEnds(t, "csv", e)
    /\ UNCHANGED <<news_data, store, json_file, nops, saves, world, probes>>

save_to_json(t) ==
    /\ pc[t] = "json"
    /\ \E e \in ExportOutcomes :
         /\ Inject(e)
         /\ json_file' = Written(json_file, to_dict_records(DataFrame(Batch)), e)
         /\ ExportEnds(t, "json", e)
    /\ UNCHANGED <<news_data, store, csv_file, nops, saves, world, probes>>

(***************************************************************************)
(* save_to_database (lines 429-451): connect, then one INSERT OR IGNORE    *)
(* and one commit per item of self.news_data, all inside one try block.    *)
(***************************************************************************)
DbOutcomes == {"none", "sqlite3.Error", "RuntimeError"}

\* line 432: sqlite3.connect; line 433: the loop takes the list's iterator
DbOpen(t) ==
    /\ pc[t] = "db"
    /\ \E e \in {"none", "sqlite3.Error"} :
         /\ Inject(e)
         /\ IF e = "none"
            THEN /\ pc' = [pc EXCEPT ![t] = "row"]
                 /\ loc' = [loc EXCEPT ![t].ref = news_data, ![t].i = 1,
                                       ![t].n0 = Len(store)]
                 /\ UNCHANGED <<heap, tasks, job, saves>>
            ELSE SaveEnds(t, Batch, -1, TRUE, e, store)
    /\ UNCHANGED <<news_data, store, csv_file, json_file, nops, world, probes>>

\* lines 433-448: the next item is inserted and committed, or execute raises
\* (e: what the environment makes execute raise)
DbRow(t) ==
    /\ pc[t] = "row"
    /\ loc[t].i <= Len(heap[loc[t].ref])
    /\ \E e \in DbOutcomes :
         LET r == InsertOrIgnore(store, heap[loc[t].ref][loc[t].i])
             raised == IF e # "none" THEN e ELSE r.raised
             first == IF loc[t].failed_at = 0 THEN loc[t].i ELSE loc[t].failed_at
         IN  /\ Inject(e)
             /\ IF raised = "none"
                THEN /\ store' = r.rows
                     /\ loc' = [loc EXCEPT ![t].i = @ + 1]
                     /\ UNCHANGED <<heap, pc, tasks, job, saves>>
                ELSE IF RowErrorEndsLoop
                THEN /\ SaveEnds(t, heap[loc[t].ref], first,
                                 loc[t].injected \/ e # "none", raised, store)
                     /\ UNCHANGED store
                ELSE /\ loc' = [loc EXCEPT ![t].i = @ + 1, ![t].failed_at = first,
                                           ![t].injected = @ \/ e # "none"]
                     /\ UNCHANGED <<store, heap, pc, tasks, job, saves>>
    /\ UNCHANGED <<news_data, csv_file, json_file, nops, world, probes>>

\* the loop is exhausted: the connection is closed, line 449
DbEnd(t) ==
    /\ pc[t] = "row"
    /\ loc[t].i > Len(heap[loc[t].ref])
    /\ SaveEnds(t, heap[loc[t].ref], loc[t].failed_at, loc[t].injected, "none", store)
    /\ UNCHANGED <<news_data, store, csv_file, json_file, nops, faults, world,
                   probes>>

(***************************************************************************)
(* scrape_single_feed (lines 383-399), called by the service on its event  *)
(* loop: fetch, extend, save_to_database, save_to_csv, save_to_json.       *)
(***************************************************************************)
\* line 394: entries = self.fetch_feed(country, agency, feed_url)
ScrapeSingle(t, url, label) ==
    /\ t = "api"
    /\ pc[t] = "idle"
    /\ nops < MaxOps
    /\ \E raised \in NetOutcomes :
         LET r == fetch_feed(label.country, label.agency,
                             [raised |-> raised, entries |-> feed[url]], clock)
         IN  IF r.raised = "none"
             THEN /\ pc' = [pc EXCEPT ![t] = "s_extend"]
                  /\ loc' = [loc EXCEPT ![t] =
                               [IdleLoc EXCEPT !.kind = "single", !.entries = r.value,
                                               !.t0 = clock,
                                               !.fetched = (raised = "none")]]
             ELSE UNCHANGED <<pc, loc>>
    /\ nops' = nops + 1
    /\ UNCHANGED <<heap, news_data, store, csv_file, json_file, tasks, job, faults,
                   saves, world, probes>>

\* line 395: self.news_data.extend(entries)
SingleExtend(t) ==
    /\ pc[t] = "s_extend"
    /\ heap' = [heap EXCEPT ![news_data] = Extend(@, loc[t].entries)]
    /\ pc' = [pc EXCEPT ![t] = "db"]
    /\ UNCHANGED <<news_data, store, csv_file, json_file, loc, tasks, job, nops,
                   faults, saves, world, probes>>

(***************************************************************************)
(* The environment: an exception no step foresees (RuntimeError stands for *)
(* it) raised in the orchestrator or the deduplicator, and time passing    *)
(* between operations.                                                     *)
(***************************************************************************)
Unexpected(t) ==
    /\ pc[t] \in {"hist", "join", "wait", "dedup"}
    /\ Inject("RuntimeError")
    /\ Return(t, "RuntimeError")
    /\ UNCHANGED <<news_data, store, csv_file, json_file, nops, saves, world, probes>>

Quiet == \A t \in Threads : pc[t] = "idle"

Tick ==
    /\ clock < Clock0 + MaxTicks
    /\ Quiet
    /\ clock' = clock + 1
    /\ UNCHANGED <<heap, news_data, store, csv_file, json_file, feed, pc, loc,
                   tasks, job, nops, faults, saves, probes>>

(***************************************************************************)
(* The program, one operation at a time.                                   *)
(***************************************************************************)
Step(t) ==
    \/ \E f \in FeedIdx : Worker(t, f)
    \/ Historical(t)
    \/ JoinLoad(t)
    \/ JoinResult(t)
    \/ RemoveDuplicates(t)
    \/ save_to_csv(t)
    \/ save_to_json(t)
    \/ DbOpen(t)
    \/ DbRow(t)
    \/ DbEnd(t)
    \/ SingleExtend(t)
    \/ Unexpected(t)

Next ==
    \/ \E t \in Threads : Quiet /\ RunScrape(t)
    \/ \E url \in Urls, label \in SingleLabels : Quiet /\ ScrapeSingle("api", url, label)
    \/ \E t \in Threads : Step(t)
    \/ Tick

Spec == Init /\ [][Next]_vars

(***************************************************************************)
(* The program with its threads scheduled: the thread of an operation and  *)
(* the workers of its pool are not held back forever (every request has a  *)
(* timeout, line 274, and Retry a budget, line 202).                       *)
(***************************************************************************)
Fairness == \A t \in Threads : WF_vars(Step(t))

SpecLive == Init /\ [][Next]_vars /\ Fairness

(***************************************************************************)
(* The program with its two threads at once: the scheduler's job and a     *)
(* request of the service run concurrently, every step of one between any  *)
(* two steps of the other.                                                 *)
(***************************************************************************)
OverlapInit ==
    /\ InitObject
    /\ heap = [x \in ListIds |-> <<>>]
    /\ clock = Clock0
    /\ feed = [u \in Urls |->
                 IF u = RSS_FEEDS[1].url THEN <<EntryB, EntryB>> ELSE <<EntryA>>]

NextOverlap ==
    \/ \E t \in Threads : RunScrape(t)
    \/ \E url \in Urls, label \in SingleLabels : ScrapeSingle("api", url, label)
    \/ \E t \in Threads : Step(t)
    \/ Tick

SpecOverlap == OverlapInit /\ [][NextOverlap]_vars

(***************************************************************************)
(* The program with an output directory that cannot be written (no space   *)
(* left, no permission): to_csv and to_json raise OSError in every run.    *)
(* This is a state of the machine, not one of the transient errors the     *)
(* budget counts.                                                          *)
(***************************************************************************)
save_to_csv_unwritable(t) ==
    /\ pc[t] = "csv"
    /\ csv_file' = Written(csv_file, DataFrame(Batch), "OSError")
    /\ ExportEnds(t, "csv", "OSError")
    /\ UNCHANGED <<news_data, store, json_file, nops, faults, saves, world, probes>>

save_to_json_unwritable(t) ==
    /\ pc[t] = "json"
    /\ json_file' = Written(json_file, to_dict_records(DataFrame(Batch)), "OSError")
    /\ ExportEnds(t, "json", "OSError")
    /\ UNCHANGED <<news_data, store, csv_file, nops, faults, saves, world, probes>>

StepUnwritable(t) ==
    \/ \E f \in FeedIdx : Worker(t, f)
    \/ Historical(t)
    \/ JoinLoad(t)
    \/ JoinResult(t)
    \/ RemoveDuplicates(t)
    \/ save_to_csv_unwritable(t)
    \/ save_to_json_unwritable(t)
    \/ DbOpen(t)
    \/ DbRow(t)
    \/ DbEnd(t)
    \/ SingleExtend(t)
    \/ Unexpected(t)

NextUnwritable ==
    \/ \E t \in Threads : Quiet /\ RunScrape(t)
    \/ \E url \in Urls, label \in SingleLabels : Quiet /\ ScrapeSingle("api", url, label)
    \/ \E t \in Threads : StepUnwritable(t)
    \/ Tick

SpecUnwritable == Init /\ [][NextUnwritable]_vars

(***************************************************************************)
(* The program on feeds of several entries, one of them with an entry      *)
(* twice.                                                                  *)
(***************************************************************************)
OrderContents == {<<EntryA, EntryB>>, <<EntryB, EntryA, EntryB>>}

OrderInit ==
    /\ InitObject
    /\ heap = [x \in ListIds |-> <<>>]
    /\ clock = Clock0
    /\ feed \in [Urls -> OrderContents]

SpecOrder == OrderInit /\ [][Next]_vars

(***************************************************************************)
(* remove_duplicates on its own: the batch is any sequence of at most      *)
(* MaxBatch articles that differ from one another in the four key fields   *)
(* and in country.                                                         *)
(***************************************************************************)
BaseArticle ==
    Article(<<"a">>, DateStr("sql", Clock0), "BBC News", "UK",
            <<>>, "u1", "unknown", "neutral")

OtherValue ==
    [title |-> <<"b">>, publication_date |-> DateStr("sql", Clock0 + 1),
     source |-> "CNN", url |-> "u2", country |-> "USA"]

\* the articles that differ from BaseArticle in at most two fields
DedupArticles ==
    {[f \in DOMAIN BaseArticle |-> IF f \in D THEN OtherValue[f] ELSE BaseArticle[f]] :
        D \in {D \in SUBSET DOMAIN OtherValue : Cardinality(D) <= 2}}

DedupInit ==
    /\ InitObject
    /\ \E b \in SeqsUpTo(DedupArticles, MaxBatch) :
         heap = [x \in ListIds |-> IF x = 1 THEN b ELSE <<>>]
    /\ clock = Clock0
    /\ feed = [u \in Urls |-> <<>>]

\* self.news_data = self.remove_duplicates(), once
DedupCall ==
    /\ dedup_io = <<>>
    /\ LET l == Fresh
       IN  /\ news_data' = l
           /\ heap' = Collect([heap EXCEPT ![l] = remove_duplicates(Batch)], l, loc)
           /\ dedup_io' = <<Batch, heap'[l]>>
    /\ UNCHANGED <<store, csv_file, json_file, pc, loc, tasks, job, nops, faults,
                   saves, world, fetch_io, call_io>>

SpecDedup == DedupInit /\ [][DedupCall]_vars

(***************************************************************************)
(* fetch_feed on its own: the feed is any sequence of at most MaxEntries   *)
(* entries whose date is absent, unparseable, or well-formed and around    *)
(* the cutoff.                                                             *)
(***************************************************************************)
EntryDates ==
    {DateStr("rfc822", Clock0 - RecencyDays - 1),
     DateStr("rfc822", Clock0 - RecencyDays),
     DateStr("rfc822", Clock0 - 1),
     DateStr("other", 0)}

EntryTitles == {<<"a">>, <<" ", "a", " ", "\n", "b", "?">>}

FetchEntries ==
    {[link |-> "u1"], [title |-> <<" ">>, link |-> "u1"]}
    \cup {[title |-> ti, link |-> "u1", published |-> d] :
            ti \in EntryTitles, d \in EntryDates}
    \cup {[title |-> <<"a">>, link |-> "u1", updated |-> d] : d \in EntryDates}
    \cup {[title |-> <<"a">>, link |-> "u1", fault |-> "AttributeError"]}

FetchInit ==
    /\ InitObject
    /\ heap = [x \in ListIds |-> <<>>]
    /\ clock \in Clock0..(Clock0 + MaxTicks)
    /\ \E es \in SeqsUpTo(FetchEntries, MaxEntries) :
         feed = [u \in Urls |-> IF u = RSS_FEEDS[1].url THEN es ELSE <<>>]

\* fetch_feed(country, agency, url) for the first feed, once
FetchCall ==
    /\ fetch_io = <<>>
    /\ \E raised \in NetOutcomes :
         LET es == feed[RSS_FEEDS[1].url]
             r == fetch_feed(RSS_FEEDS[1].country, RSS_FEEDS[1].agency,
                             [raised |-> raised, entries |-> es], clock)
         IN  fetch_io' = <<[entries |-> es, clock |-> clock, net |-> raised,
                            raised |-> r.raised, value |-> r.value]>>
    /\ UNCHANGED <<heap, news_data, store, csv_file, json_file, pc, loc, tasks,
                   job, nops, faults, saves, world, dedup_io, call_io>>

SpecFetch == FetchInit /\ [][FetchCall]_vars

(***************************************************************************)
(* The HTTP session (setup_session, lines 195-205) and the request of      *)
(* fetch_feed (lines 273-276).  urllib3 sends the request again, within    *)
(* the budget of Retry, when an attempt ends in a connection or read error *)
(* or in a status of the forcelist.  An attempt's outcome is               *)
(* [error, status]; the url does not redirect.                             *)
(***************************************************************************)
StatusForcelist == {429, 500, 502, 503, 504}

HttpOutcome(error, status) == [error |-> error, status |-> status]

\* Retry.increment is called for the attempt
Retried(o) == o.error \/ o.status \in StatusForcelist

RECURSIVE session_get_no_budget(_, _, _)
\* a mutation of session_get: the budget is never spent
session_get_no_budget(outs, k, left) ==
    IF Retried(outs[k])
    THEN IF k = Len(outs)
         THEN [attempts |-> k, status |-> 0,
               raised |-> IF outs[k].error THEN "ConnectionError" ELSE "RetryError"]
         ELSE session_get_no_budget(outs, k + 1, left)
    ELSE [attempts |-> k, status |-> outs[k].status, raised |-> "none"]

RECURSIVE session_get(_, _, _)
\* self.session.get(url, ...): attempt k with left retries left, given what
\* each attempt ends in; [attempts, status, raised]
session_get(outs, k, left) ==
    IF Retried(outs[k])
    THEN IF left = 0
         THEN [attempts |-> k, status |-> 0,
               raised |-> IF outs[k].error THEN "ConnectionError" ELSE "RetryError"]
         ELSE session_get(outs, k + 1, left - 1)
    ELSE [attempts |-> k, status |-> outs[k].status, raised |-> "none"]

\* response.raise_for_status()
raise_for_status(status) == IF status >= 400 /\ status < 600 THEN "HTTPError" ELSE "none"

\* lines 274-276: the response fetch_feed works on, [raised, entries], when
\* the server answers the attempts with outs and a good answer carries entries
Request(outs, entries) ==
    LET g == session_get(outs, 1, RetryTotal)
    IN  IF g.raised # "none" THEN [raised |-> g.raised, entries |-> <<>>]
        ELSE IF raise_for_status(g.status) # "none"
        THEN [raised |-> raise_for_status(g.status), entries |-> <<>>]
        ELSE [raised |-> "none", entries |-> entries]

(***************************************************************************)
(* filter_news (lines 492-537).  A request has, for each filter, the       *)
(* values its comma-separated text names (none when the filter is not      *)
(* supplied) and a keyword (empty when not supplied).  The WHERE clause is *)
(* the conjunction of the conditions appended; a parenthesised condition   *)
(* is the sequence of its tokens, which SQLite parses as predicates with a *)
(* connective between each two.                                            *)
(***************************************************************************)
FilterColumns == <<"country", "source", "language", "sentiment", "year">>

InCondition(column, values) == [kind |-> "in", column |-> column, values |-> values]

LikePredicate(column, keyword) == [kind |-> "like", column |-> column, keyword |-> keyword]

Connective(word) == [kind |-> "connective", word |-> word]

\* line 530: " AND (title LIKE ? summary LIKE ?)" with the parameters of 531
KeywordCondition(keyword) ==
    [kind |-> "group",
     tokens |-> <<LikePredicate("title", keyword), LikePredicate("summary", keyword)>>]

RECURSIVE InConditions(_, _)
\* lines 508-528: one IN condition for each filter supplied, from column k on
InConditions(filters, k) ==
    IF k > Len(FilterColumns) THEN <<>>
    ELSE (IF filters[FilterColumns[k]] # <<>>
          THEN <<InCondition(FilterColumns[k], filters[FilterColumns[k]])>>
          ELSE <<>>) \o InConditions(filters, k + 1)

\* lines 505-531: the conditions after WHERE 1=1
BuildQuery(filters) ==
    InConditions(filters, 1)
    \o (IF filters.keyword # <<>> THEN <<KeywordCondition(filters.keyword)>> ELSE <<>>)

\* SQLite accepts the tokens between parentheses
GroupParses(tokens) ==
    /\ Len(tokens) % 2 = 1
    /\ \A i \in 1..Len(tokens) :
          tokens[i].kind = IF i % 2 = 1 THEN "like" ELSE "connective"

SqlParses(conds) ==
    \A i \in 1..Len(conds) : conds[i].kind = "group" => GroupParses(conds[i].tokens)

\* LIKE compares letters without regard to case
Lower(c) == CASE c = "N" -> "n" [] c = "T" -> "t" [] OTHER -> c

\* text LIKE '%keyword%'
Like(text, keyword) ==
    \E i \in 0..(Len(text) - Len(keyword)) :
        \A j \in 1..Len(keyword) : Lower(text[i + j]) = Lower(keyword[j])

\* the value of a column, or of strftime('%Y', publication_date), in a row
ColumnValue(row, column) ==
    IF column = "year" THEN row.publication_date.t \div DaysPerYear ELSE row[column]

RECURSIVE GroupHolds(_, _)
\* the tokens of a group that parses, of one connective throughout
GroupHolds(row, tokens) ==
    LET first == Like(row[tokens[1].column], tokens[1].keyword)
    IN  IF Len(tokens) = 1 THEN first
        ELSE IF tokens[2].word = "OR"
        THEN first \/ GroupHolds(row, SubSeq(tokens, 3, Len(tokens)))
        ELSE first /\ GroupHolds(row, SubSeq(tokens, 3, Len(tokens)))

Holds(row, cond) ==
    IF cond.kind = "in" THEN ColumnValue(row, cond.column) \in Range(cond.values)
    ELSE GroupHolds(row, cond.tokens)

\* lines 533-534: pd.read_sql_query(query, conn, params), [raised, rows]
read_sql_query(conds, rows) ==
    IF ~SqlParses(conds) THEN [raised |-> "DatabaseError", rows |-> <<>>]
    ELSE [raised |-> "none",
          rows |-> SelectIdx(rows, [i \in 1..Len(rows) |->
                                      \A c \in 1..Len(conds) : Holds(rows[i], conds[c])], 1)]

\* the handler on the table holding rows: [raised, status, value]
filter_news(filters, rows) ==
    LET r == read_sql_query(BuildQuery(filters), rows)
    IN  IF r.raised # "none" /\ Catches("Exception", r.raised)
        THEN [raised |-> "HTTPException", status |-> 500, value |-> <<>>]
        ELSE [raised |-> r.raised, status |-> 200, value |-> r.rows]

(***************************************************************************)
(* Functions on their own: each is called once, on an input drawn here.    *)
(***************************************************************************)
HttpOutcomes ==
    {HttpOutcome(TRUE, 0), HttpOutcome(FALSE, 200), HttpOutcome(FALSE, 404),
     HttpOutcome(FALSE, 429), HttpOutcome(FALSE, 503)}

CallsInit ==
    /\ InitObject
    /\ heap = [x \in ListIds |-> <<>>]
    /\ clock = Clock0
    /\ feed = [u \in Urls |-> <<EntryB>>]

\* what no call of a function on its own changes
CallFrame ==
    UNCHANGED <<heap, news_data, store, csv_file, json_file, pc, loc, tasks,
                job, nops, faults, saves, world, dedup_io, fetch_io>>

\* fetch_feed for the first feed, the server answering the attempts with outs
HttpCall ==
    /\ call_io = <<>>
    /\ \E outs \in [1..MaxServed -> HttpOutcomes] :
         LET r == fetch_feed(RSS_FEEDS[1].country, RSS_FEEDS[1].agency,
                             Request(outs, feed[RSS_FEEDS[1].url]), clock)
         IN  call_io' = <<[fn |-> "fetch_feed", outs |-> outs,
                           attempts |-> session_get(outs, 1, RetryTotal).attempts,
                           raised |-> r.raised, value |-> r.value]>>
    /\ CallFrame

\* the pages a historical url may hold: each part of the markup is there
\* or not, and the title may be blank
PageVariants ==
    {[f \in fields |->
        CASE f = "title" -> IF blank THEN <<" ">> ELSE <<"a">>
          [] f = "paragraphs" -> SummaryGood
          [] f = "published_time" -> DateStr("other", Clock0 - 5)
          [] f = "og_site" -> "BBC"] :
     fields \in SUBSET {"title", "paragraphs", "published_time", "og_site"},
     blank \in BOOLEAN}

\* scrape_historical_articles(HISTORICAL_URLS), the url holding page
HistCall ==
    /\ call_io = <<>>
    /\ \E page \in PageVariants, raised \in {"none", "RequestException"} :
         call_io' = <<[fn |-> "scrape_historical_articles", page |-> page,
                       raised |-> raised, clock |-> clock,
                       value |-> scrape_historical_articles(
                                    HISTORICAL_URLS,
                                    [u \in DOMAIN HistoricalPages |->
                                       [raised |-> raised, page |-> page]],
                                    clock)]>>
    /\ CallFrame

\* what the scorer may yield: an exception, or a compound score between
\* -1 and 1 (in units of 1/10000), those next to the thresholds among them
ScorerOutcomes ==
    {[raised |-> TRUE, compound |-> 0]}
    \cup {[raised |-> FALSE, compound |-> c] :
            c \in {-10000, 0, 10000}
                  \cup (NegThreshold - 2)..(NegThreshold + 2)
                  \cup (PosThreshold - 2)..(PosThreshold + 2)}

\* analyze_sentiment, the scorer yielding scores
SentimentCall ==
    /\ call_io = <<>>
    /\ \E scores \in ScorerOutcomes :
         call_io' = <<[fn |-> "analyze_sentiment", scores |-> scores,
                       value |-> analyze_sentiment_with(scores)]>>
    /\ CallFrame

\* n times the character c
Repeat(c, n) == [i \in 1..n |-> c]

\* texts whose trimmed length is next to the least length detected: up to
\* one blank, letters or digits, up to one blank
DetectTexts ==
    {Repeat(" ", l) \o Repeat(c, n) \o Repeat(" ", r) :
       l \in 0..1, r \in 0..1, c \in {"a", "1"}, n \in 0..(MinDetectLen + 1)}

\* what langdetect's detect may yield: an exception, nothing, a language
DetectorOutcomes ==
    {[raised |-> TRUE, lang |-> ""]}
    \cup {[raised |-> FALSE, lang |-> l] : l \in {"", "en", "fr"}}

\* detect_language(text), the detector yielding r
LanguageCall ==
    /\ call_io = <<>>
    /\ \E text \in DetectTexts, r \in DetectorOutcomes :
         call_io' = <<[fn |-> "detect_language", text |-> text, r |-> r,
                       value |-> detect_language_with(text, r)]>>
    /\ CallFrame

\* the rows a table may hold
FilterRows ==
    {Article(<<"a">>, DateStr("sql", Clock0), "BBC News", "UK",
             SummaryGood, "u1", "en", "positive"),
     Article(<<"b">>, DateStr("sql", Clock0), "CNN", "USA",
             <<>>, "u2", "unknown", "neutral"),
     Article(<<"z">>, DateStr("sql", Clock0 + DaysPerYear), "BBC News", "UK",
             <<"a">>, "u3", "unknown", "neutral")}

\* the requests: each filter not supplied or naming one value
FilterRequests ==
    {[country |-> country, source |-> source, language |-> language,
      sentiment |-> sentiment, year |-> year, keyword |-> keyword] :
       country \in {<<>>, <<"UK">>}, source \in {<<>>, <<"BBC News">>},
       language \in {<<>>, <<"en">>}, sentiment \in {<<>>, <<"positive">>},
       year \in {<<>>, <<Clock0 \div DaysPerYear>>},
       keyword \in {<<>>, <<"a">>, <<"z">>}}

\* POST /news/filter with filters, the table holding rows
FilterCall ==
    /\ call_io = <<>>
    /\ \E filters \in FilterRequests, rows \in SeqsUpTo(FilterRows, MaxRows) :
         LET r == filter_news(filters, rows)
         IN  call_io' = <<[fn |-> "filter_news", filters |-> filters, rows |-> rows,
                           raised |-> r.raised, status |-> r.status,
                           value |-> r.value]>>
    /\ CallFrame

NextCalls ==
    \/ HttpCall
    \/ HistCall
    \/ SentimentCall
    \/ LanguageCall
    \/ FilterCall

SpecCalls == CallsInit /\ [][NextCalls]_vars

(***************************************************************************)
(* Properties of remove_duplicates (under SpecDedup).                      *)
(***************************************************************************)
\* the three fields remove_duplicates compares
DedupKey(a) == <<a.title, a.source, a.url>>

\* the items of s with no earlier item of the same key, in the order of s
FirstOfEachDedupKey(s) ==
    SelectIdx(s, [i \in 1..Len(s) |->
                    \A j \in 1..(i - 1) : DedupKey(s[j]) # DedupKey(s[i])], 1)

FirstOfEachUniqueKey(s) ==
    SelectIdx(s, [i \in 1..Len(s) |->
                    \A j \in 1..(i - 1) : UniqueKey(s[j]) # UniqueKey(s[i])], 1)

\* C1 as the spec words it: the output of remove_duplicates is the input
\* without every article that has an earlier article with the same
\* (title, publication_date, source, url): the earlier one survives, the
\* survivors keep their order
C1_FirstOfFourFieldKey ==
    dedup_io # <<>> => dedup_io[2] = FirstOfEachUniqueKey(dedup_io[1])

\* C1, amended: the output of remove_duplicates is the input without every
\* article that has an earlier article with the same (title, source, url):
\* the first article of each such key survives (so of two articles equal on
\* the four key fields the later one never does), and the survivors keep
\* their order
C1_FirstOfThreeFieldKey ==
    dedup_io # <<>> => dedup_io[2] = FirstOfEachDedupKey(dedup_io[1])

\* C1's case: two articles equal on the four key fields that differ in
\* country, and a third article, went through remove_duplicates; the first
\* and the third came out, in that order
C1_Witness ==
    /\ dedup_io # <<>>
    /\ Len(dedup_io[1]) = 3
    /\ UniqueKey(dedup_io[1][1]) = UniqueKey(dedup_io[1][2])
    /\ dedup_io[1][1].country # dedup_io[1][2].country
    /\ dedup_io[2] = <<dedup_io[1][1], dedup_io[1][3]>>

\* C2 as the spec words it: an article with no earlier article equal to it
\* on all four key fields survives remove_duplicates (so two articles that
\* differ only in publication_date both survive)
C2_FourFieldKeySurvives ==
    dedup_io # <<>> =>
        \A i \in 1..Len(dedup_io[1]) :
            (\A j \in 1..(i - 1) : UniqueKey(dedup_io[1][j]) # UniqueKey(dedup_io[1][i]))
            => dedup_io[1][i] \in Range(dedup_io[2])

\* C2, amended: an article is discarded only if an earlier article of the
\* batch equals it on title, source and url: one with no such earlier
\* article survives; of two articles that differ only in publication_date
\* the later one is discarded
C2_ThreeFieldKeySurvives ==
    dedup_io # <<>> =>
        /\ \A i \in 1..Len(dedup_io[1]) :
              (\A j \in 1..(i - 1) : DedupKey(dedup_io[1][j]) # DedupKey(dedup_io[1][i]))
              => dedup_io[1][i] \in Range(dedup_io[2])
        /\ \A i, j \in 1..Len(dedup_io[1]) :
              i < j /\ DedupKey(dedup_io[1][i]) = DedupKey(dedup_io[1][j])
              => /\ Cardinality({k \in 1..Len(dedup_io[2]) :
                                   DedupKey(dedup_io[2][k]) = DedupKey(dedup_io[1][j])}) = 1
                 /\ dedup_io[1][j] \in Range(dedup_io[2])
                    => \E k \in 1..(j - 1) : dedup_io[1][k] = dedup_io[1][j]

\* C2's case: a batch of two articles that differ only in publication_date
\* went through remove_duplicates, and only the first came out
C2_Witness ==
    /\ dedup_io # <<>>
    /\ Len(dedup_io[1]) = 2
    /\ dedup_io[1][1].publication_date # dedup_io[1][2].publication_date
    /\ [dedup_io[1][1] EXCEPT !.publication_date = dedup_io[1][2].publication_date]
         = dedup_io[1][2]
    /\ dedup_io[2] = <<dedup_io[1][1]>>

(***************************************************************************)
(* Properties of fetch_feed (under SpecFetch).                             *)
(***************************************************************************)
\* the date text fetch_feed reads from an entry
PublishedText(entry) == Get(entry, "published", Get(entry, "updated", EmptyDateStr))

\* the entry's date is well-formed and more than RecencyDays before now
OlderThanCutoff(entry, now) ==
    /\ PublishedText(entry).fmt = "rfc822"
    /\ PublishedText(entry).t < now - RecencyDays

\* C7 as the spec words it: fetch_feed returns one article for each entry
\* but those whose parseable date is more than 365 days before the fetch
C7_OldEntriesExcluded ==
    /\ fetch_io # <<>> /\ fetch_io[1].net = "none"
    /\ \A i \in 1..Len(fetch_io[1].entries) : EntryRaises(fetch_io[1].entries[i]) = "none"
    =>
        Len(fetch_io[1].value) =
            Cardinality({i \in 1..Len(fetch_io[1].entries) :
                            ~OlderThanCutoff(fetch_io[1].entries[i], fetch_io[1].clock)})

(***************************************************************************)
(* Properties of the store and of the runs (under Spec and SpecOverlap).   *)
(***************************************************************************)
\* the identity keys of the first n rows of the table
StoredKeys(n) == {UniqueKey(store[r]) : r \in 1..n}

\* C3 as the spec words it: of two full runs at different times over the
\* same feeds, all fetched and stored without error, the second leaves the
\* row count the first left
C3_SecondRunAddsNoRow ==
    /\ Len(saves) = 2
    /\ saves[1].kind = "full" /\ saves[2].kind = "full"
    /\ saves[1].fetched /\ saves[2].fetched
    /\ saves[1].err = "none" /\ saves[2].err = "none"
    /\ saves[1].t1 < saves[2].t0
    /\ saves[2].n0 = saves[1].n1
    => saves[2].n1 = saves[1].n1

\* C4: of two calls of save_to_database in a row with the same batch, no
\* storage fault injected in either, the second leaves the row count the
\* first left and raises no error, inside or out
C4_SecondSaveAddsNoRow ==
    /\ Len(saves) = 2
    /\ saves[1].batch = saves[2].batch
    /\ ~saves[1].injected /\ ~saves[2].injected
    /\ saves[2].n0 = saves[1].n1
    => /\ saves[2].n1 = saves[1].n1
       /\ saves[2].err = "none"
       /\ saves[2].failed_at = 0
       /\ saves[2].escaped = "none"

\* C4's case: a batch of two or more articles was saved twice in a row,
\* no fault injected, and the first call stored rows
C4_Witness ==
    /\ Len(saves) = 2
    /\ saves[1].batch = saves[2].batch
    /\ Len(saves[1].batch) >= 2
    /\ ~saves[1].injected /\ ~saves[2].injected
    /\ saves[2].n0 = saves[1].n1
    /\ saves[1].n1 > saves[1].n0

\* C5: no two rows of the table are equal on
\* (title, publication_date, source, url)
C5_StoreKeysUnique ==
    \A i, j \in 1..Len(store) : i < j => UniqueKey(store[i]) # UniqueKey(store[j])

\* C5's case: a single-feed run is past two items of its batch that are
\* equal on the key, not deduplicated, while a full run on the other thread
\* is inserting too, and the table has rows
C5_Witness ==
    /\ pc["api"] = "row" /\ loc["api"].kind = "single"
    /\ pc["sched"] = "row"
    /\ loc["api"].i > 2
    /\ Len(heap[loc["api"].ref]) >= 2
    /\ UniqueKey(heap[loc["api"].ref][1]) = UniqueKey(heap[loc["api"].ref][2])
    /\ Len(store) >= 2

\* the articles of feed f in a batch
OfFeed(batch, f) ==
    SelectIdx(batch, [i \in 1..Len(batch) |->
                        /\ batch[i].source = RSS_FEEDS[f].agency
                        /\ batch[i].country = RSS_FEEDS[f].country], 1)

\* C6: when scrape_all_feeds has returned, the batch holds, for each feed
\* whose fetch did not fail, the articles of its entries, and nothing for a
\* feed whose fetch failed with a network error; no network error ever
\* reaches run_scrape
C6_PartialFailureIsolated ==
    /\ \A t \in Threads : job[t].exc \notin (NetOutcomes \ {"none"})
    /\ \A t \in Threads :
          pc[t] = "dedup" =>
              \A f \in FeedIdx :
                  OfFeed(Batch, f) =
                      IF tasks[t][f].failed THEN <<>>
                      ELSE ProcessEntries(feed[RSS_FEEDS[f].url], RSS_FEEDS[f].country,
                                          RSS_FEEDS[f].agency,
                                          DateTime(tasks[t][f].at - RecencyDays, FALSE),
                                          tasks[t][f].at)

\* C6's case: scrape_all_feeds has returned, the fetch of the first feed
\* failed, the second did not, and its articles are in the batch
C6_Witness ==
    \E t \in Threads :
        /\ pc[t] = "dedup"
        /\ tasks[t][1].failed /\ tasks[t][1].done
        /\ ~tasks[t][2].failed
        /\ OfFeed(Batch, 2) # <<>>
        /\ Batch = OfFeed(Batch, 2)

JobWellFormed ==
    \A t \in Threads :
        /\ job[t].state \in {"Idle", "Running", "Completed", "Failed"}
        /\ ~job[t].propagated
        /\ job[t].state = "Running" <=> (pc[t] # "idle" /\ loc[t].kind = "full")
        /\ job[t].state = "Failed" <=> job[t].exc # "none"

\* a job enters Running from rest only, and leaves it for Completed or Failed
JobStep ==
    \A t \in Threads :
        job'[t].state # job[t].state =>
            \/ job[t].state # "Running" /\ job'[t].state = "Running"
            \/ job[t].state = "Running" /\ job'[t].state \in {"Completed", "Failed"}

\* C9: every run_scrape takes its job to Running and from there to one of
\* Completed and Failed; the job is Failed exactly when an exception left
\* one of its steps, and no exception leaves run_scrape
C9_JobStateMachine == [](JobWellFormed) /\ [][JobStep]_vars

\* C9's case: an exception left the store step of a full run, and the job
\* is Failed
C9_Witness ==
    \E t \in Threads :
        /\ job[t].state = "Failed"
        /\ job[t].step = "row"
        /\ pc[t] = "idle"

\* C10 as the spec words it: a full run whose store write failed with an
\* sqlite3.Error ends Failed
C10_StoreErrorFailsRun ==
    \A k \in 1..Len(saves) :
        saves[k].kind = "full" /\ saves[k].err = "sqlite3.Error"
        => saves[k].job = "Failed"

\* C10, amended: a full run whose store write failed with an sqlite3.Error
\* ends Completed: the error is caught in save_to_database and nothing
\* leaves it, so nothing reaches run_scrape or its caller
C10_StoreErrorSwallowed ==
    /\ \A k \in 1..Len(saves) :
          saves[k].kind = "full" /\ saves[k].err = "sqlite3.Error"
          => saves[k].job = "Completed" /\ saves[k].escaped = "none"
    /\ \A t \in Threads :
          pc[t] = "idle" /\ job[t].state = "Failed" => job[t].exc # "sqlite3.Error"

\* C10's case: the connection of the store write of a full run failed, and
\* the run ended Completed
C10_Witness ==
    \E k \in 1..Len(saves) :
        /\ saves[k].kind = "full"
        /\ saves[k].err = "sqlite3.Error"
        /\ saves[k].failed_at = -1
        /\ saves[k].job = "Completed"

(***************************************************************************)
(* Properties of the batch of a run (under Spec and SpecOverlap).          *)
(***************************************************************************)
\* C11 as the spec words it: what a single-feed run writes to the table
\* and, when no error was injected, to the first export file, is the
\* articles it fetched from its feed
C11_SingleRunWritesOwnArticles ==
    \A t \in Threads :
        loc[t].kind = "single" =>
            /\ pc[t] = "row" => heap[loc[t].ref] = loc[t].entries
            /\ pc[t] = "json" /\ faults = 0
               => csv_file = <<DataFrame(loc[t].entries)>>

\* the articles the fetches of the full run of thread t returned, in the
\* order scrape_all_feeds joins them
FetchedBy(t) == tasks[t][1].value \o tasks[t][2].value

\* C12 as the spec words it: when scrape_all_feeds of a full run has
\* returned, the batch is the articles that run fetched, and the batch the
\* run writes to the table is that batch deduplicated
C12_RunOwnsItsBatch ==
    \A t \in Threads :
        loc[t].kind = "full" =>
            /\ pc[t] = "dedup" => Batch = FetchedBy(t)
            /\ pc[t] = "row" => heap[loc[t].ref] = remove_duplicates(FetchedBy(t))

(***************************************************************************)
(* More properties of fetch_feed (under SpecFetch).                        *)
(***************************************************************************)
\* the entry has no title, or one that is empty once normalized
TitleBlank(entry) == "title" \notin DOMAIN entry \/ clean_text(entry.title) = <<>>

\* C13 as the spec words it: every article fetch_feed returns has a
\* non-empty title, and a feed of entries without a date whose titles are
\* all missing or blank yields as many articles, all titled "No Title"
C13_TitleNeverEmpty ==
    /\ fetch_io # <<>> /\ fetch_io[1].net = "none"
    /\ \A i \in 1..Len(fetch_io[1].entries) : EntryRaises(fetch_io[1].entries[i]) = "none"
    =>
        /\ \A i \in 1..Len(fetch_io[1].value) : fetch_io[1].value[i].title # <<>>
        /\ (\A i \in 1..Len(fetch_io[1].entries) :
               /\ TitleBlank(fetch_io[1].entries[i])
               /\ PublishedText(fetch_io[1].entries[i]) = EmptyDateStr)
           => /\ Len(fetch_io[1].value) = Len(fetch_io[1].entries)
              /\ \A i \in 1..Len(fetch_io[1].value) :
                    fetch_io[1].value[i].title = NoTitle

\* the date text of the entry is absent or does not parse
DateUnparsed(entry) == PublishedText(entry).fmt # "rfc822"

Called(fn) == call_io # <<>> /\ call_io[1].fn = fn

\* the request got a good answer: its last attempt ended in a status that
\* is neither retried nor an error status
Answered(r) ==
    /\ ~Retried(r.outs[r.attempts])
    /\ r.outs[r.attempts].status < 400

\* C15 as the spec words it: fetch_feed makes at most 4 attempts, an
\* attempt is made again only after one that ended in status 429, 500,
\* 502, 503 or 504, and fetch_feed returns an empty list, raising nothing,
\* unless the request got a good answer
C15_RetriesOnStatusOnly ==
    Called("fetch_feed") =>
        /\ call_io[1].attempts <= 4
        /\ \A k \in 1..(call_io[1].attempts - 1) :
              /\ ~call_io[1].outs[k].error
              /\ call_io[1].outs[k].status \in {429, 500, 502, 503, 504}
        /\ call_io[1].raised = "none"
        /\ ~Answered(call_io[1]) => call_io[1].value = <<>>

\* C15, amended: fetch_feed makes at most 4 attempts, an attempt is made
\* again only after one that ended in a connection or read error or in
\* status 429, 500, 502, 503 or 504, and fetch_feed returns an empty list,
\* raising nothing, unless the request got a good answer
C15_RetriesWithinBudget ==
    Called("fetch_feed") =>
        /\ call_io[1].attempts <= 4
        /\ \A k \in 1..(call_io[1].attempts - 1) :
              \/ call_io[1].outs[k].error
              \/ call_io[1].outs[k].status \in {429, 500, 502, 503, 504}
        /\ call_io[1].raised = "none"
        /\ ~Answered(call_io[1]) => call_io[1].value = <<>>
        /\ Answered(call_io[1]) => call_io[1].value # <<>>

\* C15's case: four attempts ended in a retried status and in a connection
\* error, the budget is spent, and fetch_feed returned an empty list
C15_Witness ==
    /\ Called("fetch_feed")
    /\ call_io[1].attempts = 4
    /\ call_io[1].outs[1].error
    /\ call_io[1].outs[4].status = 503
    /\ call_io[1].value = <<>>
    /\ call_io[1].raised = "none"

\* C16: when the fetch of the historical url returns a document, the list
\* of scrape_historical_articles, which a full run extends its batch with,
\* holds one article for it, with the url and country of the configuration,
\* the title of the title element (else "No Title"), the date of the
\* metadata property (else the current time) and the source of the
\* metadata property (else "Unknown")
C16_HistoricalArticleExtracted ==
    Called("scrape_historical_articles") /\ call_io[1].raised = "none" =>
        LET page == call_io[1].page
            value == call_io[1].value
        IN  /\ Len(value) = 1
            /\ value[1].url = HISTORICAL_URLS[1].url
            /\ value[1].country = HISTORICAL_URLS[1].country
            /\ value[1].title = IF "title" \in DOMAIN page
                                THEN clean_text(page.title) ELSE NoTitle
            /\ value[1].publication_date =
                  IF "published_time" \in DOMAIN page THEN page.published_time
                  ELSE DateStr("sql", call_io[1].clock)
            /\ value[1].source = IF "og_site" \in DOMAIN page
                                 THEN page.og_site ELSE "Unknown"

(***************************************************************************)
(* Properties of the exports (under Spec).                                 *)
(***************************************************************************)
\* C17: once a full run has ended in Completed and nothing runs, the CSV
\* file holds the frame of the batch the run stored, under the eight
\* columns, and the JSON file its records, and nothing else
C17_ExportsHoldBatch ==
    Quiet /\ saves # <<>> =>
        LET last == saves[Len(saves)]
        IN  last.kind = "full" /\ last.job = "Completed" =>
                /\ csv_file = <<DataFrame(last.batch)>>
                /\ json_file = <<to_dict_records(DataFrame(last.batch))>>

\* C18: analyze_sentiment gives "unknown" when the scorer raises, and
\* otherwise "positive" for a compound score above 0.05, "negative" for
\* one below -0.05 and "neutral" for the others, 0.05 and -0.05 among them
C18_StrictThresholds ==
    Called("analyze_sentiment") =>
        LET scores == call_io[1].scores
            value == call_io[1].value
        IN  /\ scores.raised => value = "unknown"
            /\ ~scores.raised =>
                 /\ scores.compound \in {500, -500} => value = "neutral"
                 /\ scores.compound > 500 <=> value = "positive"
                 /\ scores.compound < -500 <=> value = "negative"
                 /\ value \in {"positive", "negative", "neutral"}

\* C18's case: a score of exactly 0.05 was classified
C18_Witness ==
    /\ Called("analyze_sentiment")
    /\ ~call_io[1].scores.raised
    /\ call_io[1].scores.compound = 500
    /\ call_io[1].value = "neutral"

\* C19: detect_language returns a string that is not empty; it returns
\* "unknown" when the trimmed text has fewer than 10 characters, when the
\* detector raises and when the detector returns nothing, and the
\* detector's language otherwise; and no article fetch_feed returns has an
\* empty language
C19_LanguageNeverEmpty ==
    /\ Called("detect_language") =>
          LET text == call_io[1].text
              r == call_io[1].r
              value == call_io[1].value
          IN  /\ value # ""
              /\ IF Len(Strip(text)) < 10 \/ r.raised \/ r.lang = ""
                 THEN value = "unknown"
                 ELSE value = r.lang
    /\ Called("fetch_feed") =>
          \A i \in 1..Len(call_io[1].value) : call_io[1].value[i].language # ""

\* C19's case: a text of 10 characters between blanks, for which the
\* detector returned nothing, got "unknown"
C19_Witness ==
    /\ Called("detect_language")
    /\ Len(call_io[1].text) = 12
    /\ Len(Strip(call_io[1].text)) = 10
    /\ ~call_io[1].r.raised
    /\ call_io[1].r.lang = ""
    /\ call_io[1].value = "unknown"

\* the rows that satisfy the filters of a request other than the keyword
OtherFiltersHold(row, filters) ==
    \A k \in 1..Len(FilterColumns) :
        filters[FilterColumns[k]] # <<>> =>
            ColumnValue(row, FilterColumns[k]) \in Range(filters[FilterColumns[k]])

\* C20: a filter request with a keyword ends without a service error and
\* returns the stored articles that satisfy its other filters and whose
\* title or summary contains the keyword
C20_KeywordFilterMatches ==
    Called("filter_news") /\ call_io[1].filters.keyword # <<>> =>
        LET filters == call_io[1].filters
            rows == call_io[1].rows
        IN  /\ call_io[1].raised = "none"
            /\ call_io[1].value =
                 SelectIdx(rows,
                           [i \in 1..Len(rows) |->
                              /\ OtherFiltersHold(rows[i], filters)
                              /\ \/ Like(rows[i].title, filters.keyword)
                                 \/ Like(rows[i].summary, filters.keyword)], 1)

(***************************************************************************)
(* Properties of the dates fetch_feed gives (under SpecFetch).             *)
(***************************************************************************)
\* the entry's date is well-formed and not more than RecencyDays before now
InsideWindow(entry, now) ==
    /\ PublishedText(entry).fmt = "rfc822"
    /\ PublishedText(entry).t >= now - RecencyDays

\* C21: when fetch_feed returns one article for each entry, the article of
\* an entry whose published field (or, without one, updated field) parses
\* and lies inside the recency window carries that timestamp, and the
\* article of an entry whose date is absent or does not parse carries the
\* time of the fetch
C21_ParsedDateKept ==
    /\ fetch_io # <<>> /\ fetch_io[1].net = "none"
    /\ \A i \in 1..Len(fetch_io[1].entries) : EntryRaises(fetch_io[1].entries[i]) = "none"
    /\ Len(fetch_io[1].value) = Len(fetch_io[1].entries)
    =>
        \A i \in 1..Len(fetch_io[1].entries) :
            LET entry == fetch_io[1].entries[i]
                date == fetch_io[1].value[i].publication_date
            IN  /\ InsideWindow(entry, fetch_io[1].clock)
                   => date = DateStr("sql", PublishedText(entry).t)
                /\ PublishedText(entry).fmt # "rfc822"
                   => date = DateStr("sql", fetch_io[1].clock)

(***************************************************************************)
(* Properties of the steps of a run (under Spec).                          *)
(***************************************************************************)
\* thread t is about to insert an item
Inserting(t) == pc[t] = "row" /\ loc[t].i <= Len(heap[loc[t].ref])

\* the item thread t is about to insert
NextItem(t) == heap[loc[t].ref][loc[t].i]

\* C22: no step changes or removes a row of the store, and the step of
\* save_to_database (a step of the thread that is about to insert) on an
\* item whose identity key is in the store leaves the store as it is,
\* whatever the item's other columns hold
C22_ConflictLeavesStore ==
    [][/\ Len(store') >= Len(store)
       /\ SubSeq(store', 1, Len(store)) = store
       /\ \A t \in Threads :
            /\ Inserting(t) /\ Conflicts(store, NextItem(t))
            /\ <<pc'[t], loc'[t]>> # <<pc[t], loc[t]>>
            => store' = store]_vars

\* C22's case: save_to_database has gone past an item whose identity key is
\* that of a stored row of another country, and the row is as it was
C22_Witness ==
    \E t \in Threads :
        /\ pc[t] = "row"
        /\ loc[t].i = 2
        /\ \E r \in 1..Len(store) :
             /\ UniqueKey(store[r]) = UniqueKey(heap[loc[t].ref][1])
             /\ store[r].country # heap[loc[t].ref][1].country

\* every fetch worker of thread t's run has returned
AllJoined(t) == \A f \in FeedIdx : tasks[t][f].done

\* the steps of a full run that come after the fetches
AfterFetch == {"dedup", "csv", "json", "db", "row"}

\* C23: in a full run that no run overlaps, the fetch workers have all
\* returned when the batch is deduplicated, exported and stored, the batch
\* exported and stored is the deduplicated batch of what they fetched, and
\* a step that changes the store is the store write of a run, the rows a
\* full run adds being items of its deduplicated batch
C23_StepsInOrder ==
    /\ [](\A t \in Threads :
            loc[t].kind = "full" =>
                /\ pc[t] \in AfterFetch => AllJoined(t)
                /\ pc[t] = "dedup" => Batch = FetchedBy(t)
                /\ pc[t] \in AfterFetch \ {"dedup"}
                   => Batch = remove_duplicates(FetchedBy(t)))
    /\ [][store' # store =>
            \E t \in Threads :
                /\ pc[t] = "row"
                /\ loc[t].kind = "full" =>
                     /\ AllJoined(t)
                     /\ \A r \in (Len(store) + 1)..Len(store') :
                          store'[r] \in Range(remove_duplicates(FetchedBy(t)))]_vars

\* C23's case: the store write of a full run has inserted a row
C23_Witness ==
    \E t \in Threads :
        /\ loc[t].kind = "full"
        /\ pc[t] = "row"
        /\ loc[t].i = 2
        /\ Len(store) = loc[t].n0 + 1
        /\ AllJoined(t)

(***************************************************************************)
(* Properties of the order of the articles (under SpecOrder).              *)
(***************************************************************************)
RECURSIVE IsSubsequence(_, _)
\* a is b with some of its items left out
IsSubsequence(a, b) ==
    IF a = <<>> THEN TRUE
    ELSE IF b = <<>> THEN FALSE
    ELSE IF Head(a) = Head(b) THEN IsSubsequence(Tail(a), Tail(b))
    ELSE IsSubsequence(a, Tail(b))

\* the titles of the entries of feed f, cleaned, in the order of the feed
FeedTitles(f) ==
    [i \in 1..Len(feed[RSS_FEEDS[f].url]) |->
       clean_text(Get(feed[RSS_FEEDS[f].url][i], "title", NoTitle))]

\* the titles of the articles of feed f's source among articles, in order
SourceTitles(articles, f) ==
    LET of_source == SelectIdx(articles,
                               [i \in 1..Len(articles) |->
                                  articles[i].source = RSS_FEEDS[f].agency], 1)
    IN  [i \in 1..Len(of_source) |-> of_source[i].title]

\* the articles a CSV file holds
CsvArticles(file) == IF file = <<>> THEN <<>> ELSE to_dict_records(file[1])

\* the articles a JSON file holds
JsonArticles(file) == IF file = <<>> THEN <<>> ELSE file[1]

\* C24: in a full run, whatever the order in which the workers end, the
\* articles of each source are in the order of their entries in the feed:
\* in the batch, in the two export files once written, in the list the
\* store write goes through and among the rows it adds
C24_SourceOrderKept ==
    \A t \in Threads, f \in FeedIdx :
        loc[t].kind = "full" =>
            /\ pc[t] \in {"hist", "join", "wait", "dedup", "csv", "json", "db"}
               => IsSubsequence(SourceTitles(Batch, f), FeedTitles(f))
            /\ pc[t] = "json" /\ faults = 0
               => /\ IsSubsequence(SourceTitles(CsvArticles(csv_file), f), FeedTitles(f))
                  /\ CsvArticles(csv_file) = Batch
            /\ pc[t] = "db" /\ faults = 0
               => /\ IsSubsequence(SourceTitles(JsonArticles(json_file), f), FeedTitles(f))
                  /\ JsonArticles(json_file) = Batch
            /\ pc[t] = "row"
               => /\ IsSubsequence(SourceTitles(heap[loc[t].ref], f), FeedTitles(f))
                  /\ IsSubsequence(
                        SourceTitles(SubSeq(store, loc[t].n0 + 1, Len(store)), f),
                        FeedTitles(f))

\* C24's case: a feed holds an entry twice, between them another entry, and
\* the store write of the run has added the two articles of its source
C24_Witness ==
    \E t \in Threads :
        /\ loc[t].kind = "full"
        /\ pc[t] = "row"
        /\ Len(feed[RSS_FEEDS[1].url]) = 3
        /\ Len(SourceTitles(SubSeq(store, loc[t].n0 + 1, Len(store)), 1)) = 2

(***************************************************************************)
(* Termination of a run (under SpecLive).                                  *)
(***************************************************************************)
\* C25: every full run that was started ends: a job that is Running is
\* later Completed or Failed
C25_RunEnds ==
    \A t \in Threads :
        (job[t].state = "Running") ~> (job[t].state \in {"Completed", "Failed"})

\* C25's case: a full run one of whose fetches failed has ended Completed
C25_Witness ==
    \E k \in 1..Len(saves) :
        /\ saves[k].kind = "full"
        /\ ~saves[k].fetched
        /\ saves[k].job = "Completed"
        /\ Quiet

(***************************************************************************)
(* The order of the batch (under SpecOrder).                               *)
(***************************************************************************)
\* the articles of the historical urls when every page is fetched
HistoricalFetched ==
    scrape_historical_articles(
        HISTORICAL_URLS,
        [u \in DOMAIN HistoricalPages |-> [raised |-> "none", page |-> HistoricalPages[u]]],
        clock)

RECURSIVE JoinedUpTo(_, _)
\* the lists of the workers of feeds 1..k of thread t's run, one after another
JoinedUpTo(t, k) ==
    IF k = 0 THEN <<>> ELSE JoinedUpTo(t, k - 1) \o tasks[t][k].value

\* what the worker of feed f returns when the fetch succeeds
FeedArticles(f) ==
    fetch_feed(RSS_FEEDS[f].country, RSS_FEEDS[f].agency,
               [raised |-> "none", entries |-> feed[RSS_FEEDS[f].url]], clock).value

\* C26: whatever the order in which the workers end, the batch of a full
\* run holds the historical articles, then the articles of the feeds
\* joined so far in the order of the configuration; once all are joined it
\* is the historical articles followed by each feed's articles, a feed's
\* articles being those of its contents or none when its fetch failed
C26_BatchInConfiguredOrder ==
    \A t \in Threads :
        loc[t].kind = "full" =>
            /\ pc[t] = "join" => Batch = HistoricalFetched \o JoinedUpTo(t, loc[t].i - 1)
            /\ pc[t] = "dedup" => Batch = HistoricalFetched \o JoinedUpTo(t, Len(RSS_FEEDS))
            /\ \A f \in FeedIdx :
                 tasks[t][f].done => tasks[t][f].value \in {<<>>, FeedArticles(f)}

\* C26's case: the worker of the second feed has ended with articles while
\* the run waits for the worker of the first feed
C26_Witness ==
    \E t \in Threads :
        /\ loc[t].kind = "full"
        /\ pc[t] = "wait"
        /\ loc[t].i = 1
        /\ ~tasks[t][1].done
        /\ tasks[t][2].done
        /\ tasks[t][2].value # <<>>

(***************************************************************************)
(* The exports of a run whose store write fails (under SpecUnwritable).    *)
(***************************************************************************)
\* C27: once a full run whose store write failed has ended and nothing
\* runs, the two export files hold the batch the run went through
C27_ExportsSurviveStoreFailure ==
    Quiet /\ saves # <<>> =>
        LET last == saves[Len(saves)]
        IN  last.kind = "full" /\ last.err # "none" =>
                /\ csv_file = <<DataFrame(last.batch)>>
                /\ json_file = <<to_dict_records(DataFrame(last.batch))>>

=============================================================================
